---------------------------- MODULE Spec2Model ----------------------------
(***************************************************************************)
(* A model of translate/storage/jsonl10n.py: the JSON translation stores   *)
(* (nested JSON, WebExtension, i18next, go-i18n, ARB), their extraction of *)
(* units from a parsed tree and the serialization of the units back.       *)
(*                                                                         *)
(* Python values are modelled as follows.                                  *)
(*   str          a sequence of one-character strings, "ab" = <<"a","b">>  *)
(*   None         [t |-> "none"]                                           *)
(*   JSON string  [t |-> "str", s |-> chars]                               *)
(*   OrderedDict  [t |-> "obj", kv |-> << <<key, value>>, ... >>]          *)
(*   list         [t |-> "arr", xs |-> << value, ... >>]                   *)
(*   multistring  [t |-> "multi", strings |-> << chars, ... >>]            *)
(* A name that is a key, an array index or absent is [n |-> "key", ..],    *)
(* [n |-> "idx", ..], [n |-> "none"]; a list of keys is [n |-> "list", ..].*)
(***************************************************************************)
EXTENDS Integers, Sequences, FiniteSets, TLC

VARIABLES
    dialect,    \* the store class: which UnitClass, _extract_units, serialize
    filter,     \* JsonFile._filter: None or a set of key names
    locale,     \* TranslationStore target language, None or a name
    pc,         \* "new" before parse, "parsed" after
    exc,        \* the exception the last operation raised, "none" if it returned
    file,       \* JsonFile._file, the parsed tree
    units,      \* TranslationStore.units, in extraction order
    out,        \* what the last serialize wrote, None before
    edits       \* how many assignments were made to units

vars == <<dialect, filter, locale, pc, exc, file, units, out, edits>>

-----------------------------------------------------------------------------
(* Bounds of the model *)

\* the number of assignments to unit attributes in one run
MaxEdits == 2
\* the largest number of plural forms assigned to a unit
MaxForms == 3
\* the number of keys of the generated input objects
MaxKeys == 2
\* the number of keys of the generated ARB objects
MaxArbKeys == 3
\* the number of plural categories of a generated go-i18n translation
MaxCategories == 2

-----------------------------------------------------------------------------
(* Python str operations, on sequences of characters *)

Digits == <<"0", "1", "2", "3", "4", "5", "6", "7", "8", "9">>

\* str(i) for a non-negative int
RECURSIVE IntToStr(_)
IntToStr(i) ==
    IF i < 10 THEN <<Digits[i + 1]>>
    ELSE IntToStr(i \div 10) \o <<Digits[(i % 10) + 1]>>

\* s.endswith(suf)
EndsWith(s, suf) ==
    /\ Len(s) >= Len(suf)
    /\ SubSeq(s, Len(s) - Len(suf) + 1, Len(s)) = suf

\* s.startswith(pre)
StartsWith(s, pre) ==
    /\ Len(s) >= Len(pre)
    /\ SubSeq(s, 1, Len(pre)) = pre

\* sub in s
Contains(s, sub) ==
    \E i \in 1..(Len(s) - Len(sub) + 1) : SubSeq(s, i, i + Len(sub) - 1) = sub

\* s[:-n]
DropLast(s, n) == SubSeq(s, 1, Len(s) - n)

\* s.lstrip(c)
RECURSIVE LStrip(_, _)
LStrip(s, c) ==
    IF s # <<>> /\ Head(s) = c THEN LStrip(Tail(s), c) ELSE s

\* s.split(c): the pieces between the occurrences of the character c
RECURSIVE Split(_, _)
Split(s, c) ==
    IF \E i \in 1..Len(s) : s[i] = c
    THEN LET i == CHOOSE j \in 1..Len(s) :
                      s[j] = c /\ \A h \in 1..(j - 1) : s[h] # c
         IN  <<SubSeq(s, 1, i - 1)>> \o Split(SubSeq(s, i + 1, Len(s)), c)
    ELSE <<s>>

\* s.rsplit(c, 1): split at the last occurrence of c, or [s]
RSplit1(s, c) ==
    IF \E i \in 1..Len(s) : s[i] = c
    THEN LET i == CHOOSE j \in 1..Len(s) :
                      s[j] = c /\ \A h \in (j + 1)..Len(s) : s[h] # c
         IN  <<SubSeq(s, 1, i - 1), SubSeq(s, i + 1, Len(s))>>
    ELSE <<s>>

\* s.isdigit()
IsDigit(s) ==
    /\ s # <<>>
    /\ \A i \in 1..Len(s) : \E d \in 1..10 : s[i] = Digits[d]

\* reversed(seq)
Reversed(seq) == [i \in 1..Len(seq) |-> seq[Len(seq) + 1 - i]]

\* seq.remove(x) on a list that holds x: the first occurrence goes
ListRemove(seq, x) ==
    LET i == CHOOSE j \in 1..Len(seq) :
                 seq[j] = x /\ \A h \in 1..(j - 1) : seq[h] # x
    IN  SubSeq(seq, 1, i - 1) \o SubSeq(seq, i + 1, Len(seq))

\* x in seq
InList(x, seq) == \E i \in 1..Len(seq) : seq[i] = x

-----------------------------------------------------------------------------
(* Python values *)

None == [t |-> "none"]
Str(s) == [t |-> "str", s |-> s]
Obj(kv) == [t |-> "obj", kv |-> kv]
Arr(xs) == [t |-> "arr", xs |-> xs]
Multi(strings) == [t |-> "multi", strings |-> strings]

IsDict(v) == v.t = "obj"
IsList(v) == v.t = "arr"
IsMulti(v) == v.t = "multi"

NoName == [n |-> "none"]
KeyName(k) == [n |-> "key", key |-> k]
IdxName(i) == [n |-> "idx", i |-> i]
KeyList(ks) == [n |-> "list", keys |-> ks]

\* bool(v) of a str, a multistring (a str subclass: its first string), a dict
Truthy(v) ==
    CASE v.t = "str" -> v.s # <<>>
      [] v.t = "multi" -> v.strings[1] # <<>>
      [] v.t = "obj" -> v.kv # <<>>
      [] v.t = "arr" -> v.xs # <<>>
      [] OTHER -> FALSE

\* list(d): the keys of an OrderedDict in order
DictKeys(d) == [i \in 1..Len(d.kv) |-> d.kv[i][1]]

\* k in d
HasKey(d, k) == \E i \in 1..Len(d.kv) : d.kv[i][1] = k

\* d[k] for a key of d
DictGet(d, k) == d.kv[CHOOSE i \in 1..Len(d.kv) : d.kv[i][1] = k][2]

\* d.get(k, default)
DictGetOr(d, k, default) == IF HasKey(d, k) THEN DictGet(d, k) ELSE default

\* d[k] = v: an existing key keeps its place, a new key goes last
DictSet(d, k, v) ==
    IF HasKey(d, k)
    THEN Obj([i \in 1..Len(d.kv) |->
                 IF d.kv[i][1] = k THEN <<k, v>> ELSE d.kv[i]])
    ELSE Obj(Append(d.kv, <<k, v>>))

-----------------------------------------------------------------------------
(* Units *)

\* uuid.uuid4() as text: an opaque identifier
Uuid == <<"u", "u", "i", "d">>

\* JsonUnit.ID_FORMAT and its overrides in GoI18NJsonUnit and ARBJsonUnit
IdFormat(d, identifier) ==
    IF d \in {"goi18n", "arb"} THEN identifier ELSE <<".">> \o identifier

\* get_base(item) of the target setter: the first label, without its last
\* two characters when it contains "_0". A label that is an array index
\* makes the test raise TypeError: the result is then None.
GetBase(item) ==
    IF item[1].n # "key" THEN None
    ELSE IF Contains(item[1].key, <<"_", "0">>)
         THEN Str(DropLast(item[1].key, 2))
         ELSE Str(item[1].key)

\* get_plurals(count, base) of the target setter
GetPlurals(count, base) ==
    IF count <= 2
    THEN SubSeq(<<KeyName(base), KeyName(base \o <<"_", "p", "l", "u", "r", "a", "l">>)>>, 1, count)
    ELSE [i \in 1..count |-> KeyName(base \o <<"_">> \o IntToStr(i - 1))]

\* I18NextUnit.target setter: [unit, exc]
I18NextSetTarget(u, target) ==
    IF IsMulti(target)
    THEN LET count == Len(target.strings)
             item1 == IF u.item.n # "list" THEN <<u.item>> ELSE u.item.keys
             base == GetBase(item1)
         IN  IF count = Len(item1)
             THEN [unit |-> [u EXCEPT !.item = KeyList(item1), !.target = target],
                   exc |-> "none"]
             ELSE IF base = None
                  THEN [unit |-> [u EXCEPT !.item = KeyList(item1)],
                        exc |-> "TypeError"]
                  ELSE [unit |-> [u EXCEPT !.item = KeyList(GetPlurals(count, base.s)),
                                           !.target = target],
                        exc |-> "none"]
    ELSE IF u.item.n = "list"
         THEN LET base == GetBase(u.item.keys)
              IN  IF base = None
                  THEN [unit |-> u, exc |-> "TypeError"]
                  ELSE [unit |-> [u EXCEPT !.item = KeyName(base.s), !.target = target],
                        exc |-> "none"]
         ELSE [unit |-> [u EXCEPT !.target = target], exc |-> "none"]

\* unit.target = target: the property of I18NextUnit, a plain attribute
\* of the other unit classes
SetTarget(d, u, target) ==
    IF d = "i18next" THEN I18NextSetTarget(u, target)
    ELSE [unit |-> [u EXCEPT !.target = target], exc |-> "none"]

\* base.TranslationUnit.__init__(source): stores the source, which
\* JsonUnit.source forwards to the target
TranslationUnitInit(d, u, source) == SetTarget(d, u, source).unit

\* JsonUnit.__init__ (ARBJsonUnit.__init__ for the metadata): notes is a
\* JSON string or None, the unit keeps its text
NewUnit(d, source, item, notes, placeholders, metadata) ==
    LET u0 == [id |-> IdFormat(d, Uuid),
               item |-> IF item = NoName THEN KeyName(Uuid) ELSE item,
               type |-> IF source = None THEN "str" ELSE source.t,
               notes |-> IF Truthy(notes) THEN notes.s ELSE <<>>,
               placeholders |-> placeholders,
               target |-> None,
               metadata |-> IF Truthy(metadata) THEN metadata ELSE Obj(<<>>)]
        u1 == IF Truthy(source) THEN SetTarget(d, u0, source).unit ELSE u0
    IN  TranslationUnitInit(d, u1, source)

\* unit.setid(value)
SetId(u, value) == [u EXCEPT !.id = value]

\* JsonUnit.converttarget: every type of the model is a str type
ConvertTarget(u) == u.target

-----------------------------------------------------------------------------
(* Extraction: each _extract_units yields [units, exc], the units         *)
(* generated before an exception ended the walk                            *)

Yield(us) == [units |-> us, exc |-> "none"]

\* name in stop
InStop(name, stop) == name.n = "key" /\ name.key \in stop.keys

\* the filter test of JsonFile._extract_units at a leaf
FilterAccepts(stop, name_node, name_last_node, last_node) ==
    \/ stop = None
    \/ IsDict(last_node) /\ InStop(name_node, stop)
    \/ IsList(last_node) /\ InStop(name_last_node, stop)

RECURSIVE ExtractUnits(_, _, _, _, _, _, _)
RECURSIVE ExtractDictItems(_, _, _, _, _)
RECURSIVE ExtractListItems(_, _, _, _, _, _)
RECURSIVE I18NextLoop(_, _, _, _, _, _, _)

\* JsonFile._extract_units, the loop over data.items() from the i-th on
ExtractDictItems(d, data, stop, prev, i) ==
    IF i > Len(data.kv) THEN Yield(<<>>)
    ELSE LET k == data.kv[i][1]
             first == ExtractUnits(d, data.kv[i][2], stop, prev \o <<".">> \o k, KeyName(k), NoName, data)
             rest == ExtractDictItems(d, data, stop, prev, i + 1)
         IN  IF first.exc # "none" THEN first
             ELSE [units |-> first.units \o rest.units, exc |-> rest.exc]

\* JsonFile._extract_units, the loop over enumerate(data) from the i-th on
ExtractListItems(d, data, stop, prev, name_node, i) ==
    IF i > Len(data.xs) THEN Yield(<<>>)
    ELSE LET first == ExtractUnits(d, data.xs[i], stop, prev \o <<"[">> \o IntToStr(i - 1) \o <<"]">>, IdxName(i - 1), name_node, data)
             rest == ExtractListItems(d, data, stop, prev, name_node, i + 1)
         IN  IF first.exc # "none" THEN first
             ELSE [units |-> first.units \o rest.units, exc |-> rest.exc]

\* JsonFile._extract_units
JsonFileExtract(d, data, stop, prev, name_node, name_last_node, last_node) ==
    IF IsDict(data) THEN ExtractDictItems(d, data, stop, prev, 1)
    ELSE IF IsList(data) THEN ExtractListItems(d, data, stop, prev, name_node, 1)
    ELSE IF FilterAccepts(stop, name_node, name_last_node, last_node)
         THEN Yield(<<SetId(NewUnit(d, data, name_node, None, None, None), prev)>>)
         ELSE Yield(<<>>)

\* the suffix of the second key of a two-form plural group
PluralSuffix == <<"_", "p", "l", "u", "r", "a", "l">>

\* the inner loop of I18NextFile._extract_units: the keys of plurals, up
\* to the first one that data does not hold
RECURSIVE PresentPrefix(_, _)
PresentPrefix(data, plurals) ==
    IF plurals = <<>> \/ ~HasKey(data, Head(plurals)) THEN <<>>
    ELSE <<Head(plurals)>> \o PresentPrefix(data, Tail(plurals))

\* I18NextFile._extract_units on a dict: the loop over data.items() from
\* the i-th on, with the lists plurals_simple and plurals_multiple and the
\* set processed as the loop has left them
I18NextLoop(data, stop, prev, i, plurals_simple, plurals_multiple, processed) ==
    IF i > Len(data.kv) THEN Yield(<<>>)
    ELSE
    LET k == data.kv[i][1]
        isSimple == InList(k, plurals_simple) \/ InList(k \o PluralSuffix, plurals_simple)
        simpleBase == IF EndsWith(k, PluralSuffix) THEN DropLast(k, 7) ELSE k
        parts == RSplit1(k, "_")
        isMultiple == /\ ~isSimple
                      /\ Contains(k, <<"_">>)
                      /\ InList(parts[1], plurals_multiple)
                      /\ IsDigit(parts[2])
        plural_base == IF isSimple THEN simpleBase ELSE parts[1]
        plurals == IF isSimple THEN <<k, k \o PluralSuffix>>
                   ELSE [o \in 1..10 |-> plural_base \o <<"_">> \o IntToStr(o - 1)]
        items == PresentPrefix(data, plurals)
        sources == [j \in 1..Len(items) |-> DictGet(data, items[j]).s]
        unit == SetId(NewUnit("i18next", Multi(sources), KeyList([j \in 1..Len(items) |-> KeyName(items[j])]), None, None, None),
                      prev \o <<".">> \o plural_base)
        ps2 == IF isSimple THEN ListRemove(plurals_simple, simpleBase) ELSE plurals_simple
        pm2 == IF isMultiple THEN ListRemove(plurals_multiple, plural_base) ELSE plurals_multiple
    IN  IF k \in processed
        THEN I18NextLoop(data, stop, prev, i + 1, plurals_simple, plurals_multiple, processed)
        ELSE IF isSimple /\ ~InList(simpleBase, plurals_simple)
        THEN [units |-> <<>>, exc |-> "ValueError"]
        ELSE IF isSimple \/ isMultiple
        THEN IF items = <<>>
             THEN [units |-> <<>>, exc |-> "ValueError"]
             ELSE LET rest == I18NextLoop(data, stop, prev, i + 1, ps2, pm2,
                                          processed \cup {items[j] : j \in 1..Len(items)})
                  IN  [units |-> <<unit>> \o rest.units, exc |-> rest.exc]
        ELSE LET first == ExtractUnits("i18next", data.kv[i][2], stop, prev \o <<".">> \o k, KeyName(k), NoName, data)
                 rest == I18NextLoop(data, stop, prev, i + 1, plurals_simple, plurals_multiple, processed)
             IN  IF first.exc # "none" THEN first
                 ELSE [units |-> first.units \o rest.units, exc |-> rest.exc]

\* [f(key) for key in keys if pred]: the keys of data, in order, that end
\* with suf, each without what follows its last "_"
RECURSIVE PluralBases(_, _)
PluralBases(keys, suf) ==
    IF keys = <<>> THEN <<>>
    ELSE (IF EndsWith(Head(keys), suf) THEN <<RSplit1(Head(keys), "_")[1]>> ELSE <<>>)
         \o PluralBases(Tail(keys), suf)

\* I18NextFile._extract_units
I18NextExtract(data, stop, prev, name_node, name_last_node, last_node) ==
    IF IsDict(data)
    THEN I18NextLoop(data, stop, prev, 1,
                     PluralBases(DictKeys(data), PluralSuffix),
                     PluralBases(DictKeys(data), <<"_", "0">>), {})
    ELSE JsonFileExtract("i18next", data, stop, prev, name_node, name_last_node, last_node)

\* the keys of the records of the flat dialects
MESSAGE == <<"m", "e", "s", "s", "a", "g", "e">>
DESCRIPTION == <<"d", "e", "s", "c", "r", "i", "p", "t", "i", "o", "n">>
PLACEHOLDERS == <<"p", "l", "a", "c", "e", "h", "o", "l", "d", "e", "r", "s">>
ID == <<"i", "d">>
TRANSLATION == <<"t", "r", "a", "n", "s", "l", "a", "t", "i", "o", "n">>

\* WebExtensionJsonFile._extract_units
WebExtensionExtract(data) ==
    Yield([i \in 1..Len(data.kv) |->
        LET item == data.kv[i][1]
            value == data.kv[i][2]
        IN  SetId(NewUnit("webext", DictGetOr(value, MESSAGE, Str(<<>>)), KeyName(item),
                          DictGetOr(value, DESCRIPTION, Str(<<>>)),
                          DictGetOr(value, PLACEHOLDERS, None), None),
                  item)])

\* translate.lang.data.cldr_plural_categories
ZERO == <<"z", "e", "r", "o">>
ONE == <<"o", "n", "e">>
TWO == <<"t", "w", "o">>
FEW == <<"f", "e", "w">>
MANY == <<"m", "a", "n", "y">>
OTHER_ == <<"o", "t", "h", "e", "r">>
cldr_plural_categories == <<ZERO, ONE, TWO, FEW, MANY, OTHER_>>

\* PluralStrings reading the strings in the key order of the file instead
\* of the order of cldr_plural_categories; C6 does not hold of it
PluralStringsInFileOrder(translation, cats) ==
    IF IsDict(translation)
    THEN [i \in 1..Len(translation.kv) |-> translation.kv[i][2].s]
    ELSE <<>>

\* [translation.get(key) for key in cldr_plural_categories if key in translation]
RECURSIVE PluralStrings(_, _)
PluralStrings(translation, cats) ==
    IF cats = <<>> THEN <<>>
    ELSE (IF HasKey(translation, Head(cats)) THEN <<DictGet(translation, Head(cats)).s>> ELSE <<>>)
         \o PluralStrings(translation, Tail(cats))

\* GoI18NJsonFile._extract_units, the loop over data from the i-th record
\* on; multistring([]) raises ValueError
RECURSIVE GoI18NExtractFrom(_, _)
GoI18NExtractFrom(data, i) ==
    IF i > Len(data.xs) THEN Yield(<<>>)
    ELSE LET value == data.xs[i]
             raw == DictGetOr(value, TRANSLATION, Str(<<>>))
             strings == PluralStrings(raw, cldr_plural_categories)
             translation == IF IsDict(raw) THEN Multi(strings) ELSE raw
             id == DictGetOr(value, ID, Str(<<>>)).s
             unit == SetId(NewUnit("goi18n", translation, KeyName(id),
                                   DictGetOr(value, DESCRIPTION, Str(<<>>)), None, None), id)
             rest == GoI18NExtractFrom(data, i + 1)
         IN  IF IsDict(raw) /\ strings = <<>>
             THEN [units |-> <<>>, exc |-> "ValueError"]
             ELSE [units |-> <<unit>> \o rest.units, exc |-> rest.exc]

\* OrderedDict([(key, value) for key, value in data.items() if key.startswith("@@")])
RECURSIVE DocumentMetadata(_)
DocumentMetadata(kv) ==
    IF kv = <<>> THEN <<>>
    ELSE (IF StartsWith(Head(kv)[1], <<"@", "@">>) THEN <<Head(kv)>> ELSE <<>>)
         \o DocumentMetadata(Tail(kv))

\* ARBDataUnits skipping only the keys that start with "@@", so that an
\* "@K" entry yields a unit of its own; C5 does not hold of it
RECURSIVE ARBDataUnitsOfEntryMetadata(_, _)
ARBDataUnitsOfEntryMetadata(data, i) ==
    IF i > Len(data.kv) THEN <<>>
    ELSE LET item == data.kv[i][1]
             value == data.kv[i][2]
             metadata == DictGetOr(data, <<"@">> \o item, Obj(<<>>))
             unit == SetId(NewUnit("arb", value, KeyName(item),
                                   DictGetOr(metadata, DESCRIPTION, Str(<<>>)),
                                   DictGetOr(metadata, PLACEHOLDERS, None), metadata),
                           item)
         IN  (IF StartsWith(item, <<"@", "@">>) THEN <<>> ELSE <<unit>>)
             \o ARBDataUnitsOfEntryMetadata(data, i + 1)

\* ARBJsonFile._extract_units, the second loop: a unit for every key that
\* does not start with "@"
RECURSIVE ARBDataUnits(_, _)
ARBDataUnits(data, i) ==
    IF i > Len(data.kv) THEN <<>>
    ELSE LET item == data.kv[i][1]
             value == data.kv[i][2]
             metadata == DictGetOr(data, <<"@">> \o item, Obj(<<>>))
             unit == SetId(NewUnit("arb", value, KeyName(item),
                                   DictGetOr(metadata, DESCRIPTION, Str(<<>>)),
                                   DictGetOr(metadata, PLACEHOLDERS, None), metadata),
                           item)
         IN  (IF StartsWith(item, <<"@">>) THEN <<>> ELSE <<unit>>)
             \o ARBDataUnits(data, i + 1)

\* ARBJsonFile._extract_units
ARBExtract(data) ==
    LET metadata == Obj(DocumentMetadata(data.kv))
        header == SetId(NewUnit("arb", None, NoName, None, None, metadata), <<"@">>)
    IN  Yield((IF Truthy(metadata) THEN <<header>> ELSE <<>>) \o ARBDataUnits(data, 1))

\* self._extract_units: the method of the store's class
ExtractUnits(d, data, stop, prev, name_node, name_last_node, last_node) ==
    CASE d = "i18next" -> I18NextExtract(data, stop, prev, name_node, name_last_node, last_node)
      [] d = "webext" -> WebExtensionExtract(data)
      [] d = "goi18n" -> GoI18NExtractFrom(data, 1)
      [] d = "arb" -> ARBExtract(data)
      [] OTHER -> JsonFileExtract(d, data, stop, prev, name_node, name_last_node, last_node)

-----------------------------------------------------------------------------
(* Encoding: each getvalue yields [value, unit], the fragment and the unit *)
(* as the call leaves it                                                   *)

\* JsonUnit.getkey and JsonUnit.getvalue
JsonUnitGetValue(u) == Obj(<<<<LStrip(u.id, "."), ConvertTarget(u)>>>>)

\* JsonNestedUnit.getvalue, the loop over reversed(self.getkey())
RECURSIVE NestKeys(_, _)
NestKeys(ret, keys) ==
    IF keys = <<>> THEN ret
    ELSE LET k == Head(keys)
             isIndexed == Contains(k, <<"[">>) /\ k[Len(k)] = "]"
         IN  NestKeys(Obj(<<<<IF isIndexed THEN Split(k, "[")[1] ELSE k,
                              IF isIndexed THEN Arr(<<ret>>) ELSE ret>>>>),
                      Tail(keys))

\* JsonNestedUnit.getkey and JsonNestedUnit.getvalue
JsonNestedUnitGetValue(u) ==
    NestKeys(ConvertTarget(u), Reversed(Split(LStrip(u.id, "."), ".")))

\* WebExtensionJsonUnit.getvalue
WebExtensionGetValue(u) ==
    LET v1 == Obj(<<<<MESSAGE, u.target>>>>)
        v2 == IF u.notes # <<>> THEN DictSet(v1, DESCRIPTION, Str(u.notes)) ELSE v1
        v3 == IF Truthy(u.placeholders) THEN DictSet(v2, PLACEHOLDERS, u.placeholders) ELSE v2
    IN  Obj(<<<<u.id, v3>>>>)

\* the key a label of a plural group is stored under (an array index is
\* written as its decimal text)
LabelKey(name) == IF name.n = "idx" THEN IntToStr(name.i) ELSE name.key

\* I18NextUnit.getvalue, the loop over enumerate(self.target.strings)
RECURSIVE PluralDict(_, _, _, _)
PluralDict(ret, item, strings, i) ==
    IF i > Len(strings) THEN ret
    ELSE PluralDict(DictSet(ret, LabelKey(item[i]), Str(strings[i])), item, strings, i + 1)

\* I18NextUnit.getvalue, the loop over reversed(path)
RECURSIVE WrapKeys(_, _)
WrapKeys(ret, keys) ==
    IF keys = <<>> THEN ret
    ELSE WrapKeys(Obj(<<<<Head(keys), ret>>>>), Tail(keys))

\* I18NextUnit.getvalue
I18NextGetValue(u) ==
    IF ~IsMulti(u.target) THEN JsonNestedUnitGetValue(u)
    ELSE LET keys == Split(LStrip(u.id, "."), ".")
         IN  WrapKeys(PluralDict(Obj(<<>>), u.item.keys, u.target.strings, 1),
                      Reversed(SubSeq(keys, 1, Len(keys) - 1)))

\* translate.lang.data.plural_tags, the entries of the modelled locales
PluralTagsTable ==
    [loc \in {<<"e", "n">>, <<"c", "s">>, <<"j", "a">>} |->
        CASE loc = <<"e", "n">> -> <<ONE, OTHER_>>
          [] loc = <<"c", "s">> -> <<ONE, FEW, MANY, OTHER_>>
          [] loc = <<"j", "a">> -> <<OTHER_>>]

\* GoI18NJsonFile.plural_tags
plural_tags(loc) ==
    LET dashed == [i \in 1..Len(loc.s) |-> IF loc.s[i] = "_" THEN "-" ELSE loc.s[i]]
        name == IF Truthy(loc) THEN Split(dashed, "-")[1] ELSE <<"e", "n">>
    IN  IF name \in DOMAIN PluralTagsTable THEN PluralTagsTable[name]
        ELSE PluralTagsTable[<<"e", "n">>]

\* GoI18NJsonUnit.getvalue
GoI18NGetValue(u, tags) ==
    LET strings == IF Len(tags) > Len(u.target.strings)
                   THEN u.target.strings \o [i \in 1..(Len(tags) - Len(u.target.strings)) |-> <<>>]
                   ELSE u.target.strings
        target == IF IsMulti(u.target)
                  THEN Obj([i \in 1..Len(tags) |-> <<tags[i], Str(strings[i])>>])
                  ELSE u.target
        v1 == Obj(<<<<ID, Str(u.id)>>>>)
        v2 == IF u.notes # <<>> THEN DictSet(v1, DESCRIPTION, Str(u.notes)) ELSE v1
    IN  DictSet(v2, TRANSLATION, target)

\* ARBJsonUnit.getvalue, the write to self.metadata
ARBStoreNotes(u) ==
    IF u.notes # <<>>
    THEN [u EXCEPT !.metadata = DictSet(u.metadata, DESCRIPTION, Str(u.notes))]
    ELSE u

\* ARBJsonUnit.getvalue
ARBGetValue(u) ==
    LET u2 == ARBStoreNotes(u)
    IN  [value |-> IF u2.id = <<"@">> THEN u2.metadata
                   ELSE Obj(<<<<u2.id, u2.target>>, <<<<"@">> \o u2.id, u2.metadata>>>>),
         unit |-> u2]

\* unit.getvalue(): the method of the unit's class
GetValue(d, u, loc) ==
    CASE d = "arb" -> ARBGetValue(u)
      [] d = "goi18n" -> [value |-> GoI18NGetValue(u, plural_tags(loc)), unit |-> u]
      [] d = "i18next" -> [value |-> I18NextGetValue(u), unit |-> u]
      [] d = "webext" -> [value |-> WebExtensionGetValue(u), unit |-> u]
      [] d = "nested" -> [value |-> JsonNestedUnitGetValue(u), unit |-> u]
      [] OTHER -> [value |-> JsonUnitGetValue(u), unit |-> u]

\* merge(d1, d2) of JsonFile.serialize, the loop over the keys of d2 from
\* the i-th on
RECURSIVE Merge(_, _, _)
Merge(d1, d2, i) ==
    IF i > Len(d2.kv) THEN d1
    ELSE LET k == d2.kv[i][1]
             v2 == d2.kv[i][2]
             v1 == DictGet(d1, k)
             merged ==
                 IF HasKey(d1, k)
                 THEN IF IsDict(v1) /\ IsDict(v2) THEN DictSet(d1, k, Merge(v1, v2, 1))
                      ELSE IF IsList(v1) /\ IsList(v2) THEN DictSet(d1, k, Arr(v1.xs \o v2.xs))
                      ELSE DictSet(d1, k, v2)
                 ELSE DictSet(d1, k, v2)
         IN  Merge(merged, d2, i + 1)

\* the units after getvalue was called on each
GetValueUnits(d, us, loc) == [i \in 1..Len(us) |-> GetValue(d, us[i], loc).unit]

\* JsonFile.serialize, the loop over unit_iter() from the i-th unit on
RECURSIVE MergeUnits(_, _, _, _, _)
MergeUnits(d, acc, us, loc, i) ==
    IF i > Len(us) THEN acc
    ELSE MergeUnits(d, Merge(acc, GetValue(d, us[i], loc).value, 1), us, loc, i + 1)

\* JsonFile.serialize and GoI18NJsonFile.serialize: what json.dumps is given
SerializeUnits(d, us, loc) ==
    IF d = "goi18n" THEN Arr([i \in 1..Len(us) |-> GetValue(d, us[i], loc).value])
    ELSE MergeUnits(d, Obj(<<>>), us, loc, 1)

-----------------------------------------------------------------------------
(* The documents and assignments the model draws from *)

\* the objects with at most n entries, of distinct keys, among entries
ObjectsOf(entries, n) ==
    {Obj(kv) : kv \in UNION {{f \in [1..len -> entries] :
                                 \A i, j \in 1..len : i # j => f[i][1] # f[j][1]}
                             : len \in 0..n}}

\* the same objects, the value of the i-th entry being the i-th letter
Lettered(o) == Obj([i \in 1..Len(o.kv) |-> <<o.kv[i][1], Str(<<(<<"x", "y", "z", "w">>)[i]>>)>>])

NestedKeys == {<<"a">>, <<"c">>, <<"a", ".", "c">>}

NestedValues ==
    { Str(<<"x">>),
      Arr(<<Str(<<"y">>), Str(<<"z">>)>>),
      Arr(<<Arr(<<Str(<<"x">>)>>)>>),
      Arr(<<Obj(<<<<<<"a">>, Str(<<"x">>)>>, <<<<"c">>, Str(<<"y">>)>>>>)>>),
      Obj(<<<<<<"c">>, Str(<<"x">>)>>>>),
      Obj(<<<<<<"a">>, Str(<<"x">>)>>, <<<<"c">>, Arr(<<Str(<<"y">>), Str(<<"z">>)>>)>>>>) }

NestedInputs == ObjectsOf(NestedKeys \X NestedValues, MaxKeys)

I18NextKeys ==
    { <<"a">>, <<"a">> \o PluralSuffix, <<"a">> \o PluralSuffix \o PluralSuffix,
      <<"a", "_", "0">>, <<"a", "_", "1">>, <<"a", "_", "2">>, <<"v", "_", "0", "x">> }

I18NextFlat == {Lettered(o) : o \in ObjectsOf(I18NextKeys \X {None}, MaxKeys)}

I18NextInputs ==
    I18NextFlat
    \cup {Obj(<<<<<<"p">>, o>>>>) : o \in I18NextFlat}
    \cup {Obj(<<<<<<"l">>, Arr(<<Str(<<"q">>)>>)>>>>)}

WebExtensionEntries ==
    {<<"k">>, <<"m">>} \X
    { Obj(<<<<MESSAGE, Str(<<"x">>)>>>>),
      Obj(<<<<MESSAGE, Str(<<"x">>)>>, <<DESCRIPTION, Str(<<"d">>)>>>>),
      Obj(<<<<MESSAGE, Str(<<"x">>)>>, <<PLACEHOLDERS, Obj(<<<<<<"u">>, Str(<<"1">>)>>>>)>>>>) }

WebExtensionInputs == ObjectsOf(WebExtensionEntries, MaxKeys)

GoI18NTranslations ==
    {Str(<<"t">>)} \cup {Lettered(o) : o \in ObjectsOf({ONE, OTHER_, FEW} \X {None}, MaxCategories)}

GoI18NRecords(id) ==
    {Obj(<<<<ID, Str(id)>>>> \o desc \o <<<<TRANSLATION, tr>>>>) :
        desc \in {<<>>, <<<<DESCRIPTION, Str(<<"d">>)>>>>, <<<<DESCRIPTION, Str(<<>>)>>>>},
        tr \in GoI18NTranslations}

GoI18NInputs ==
    {Arr(<<>>)}
    \cup {Arr(<<r>>) : r \in GoI18NRecords(<<"i">>)}
    \cup {Arr(<<r, Obj(<<<<ID, Str(<<"j">>)>>, <<TRANSLATION, Str(<<"u">>)>>>>)>>) : r \in GoI18NRecords(<<"i">>)}
    \cup {Arr(<<Obj(<<<<ID, Str(<<"j">>)>>, <<TRANSLATION, Str(<<"u">>)>>>>), r>>) : r \in GoI18NRecords(<<"i">>)}

ARBEntries ==
    { <<<<"@", "@", "l">>, Str(<<"e", "n">>)>>,
      <<<<"g">>, Str(<<"H", "i">>)>>,
      <<<<"@", "g">>, Obj(<<<<DESCRIPTION, Str(<<"d">>)>>>>)>>,
      <<<<"@", "g">>, Obj(<<<<PLACEHOLDERS, Obj(<<<<<<"u">>, Obj(<<>>)>>>>)>>>>)>>,
      <<<<"h">>, Str(<<"Y", "o">>)>> }

ARBInputs == ObjectsOf(ARBEntries, MaxArbKeys)

Inputs(d) ==
    CASE d = "i18next" -> I18NextInputs
      [] d = "webext" -> WebExtensionInputs
      [] d = "goi18n" -> GoI18NInputs
      [] d = "arb" -> ARBInputs
      [] OTHER -> NestedInputs

\* the filter argument of the constructor
Filters(d) ==
    IF d \in {"json", "nested"}
    THEN {None, [t |-> "set", keys |-> {<<"c">>}]}
    ELSE {None}

\* the target language of the store
Locales(d) ==
    IF d = "goi18n"
    THEN {None, Str(<<"j", "a">>), Str(<<"e", "n", "_", "U", "S">>), Str(<<"x", "x">>)}
    ELSE {None}

\* the values assigned to a unit's target
Targets(d) ==
    {Str(<<"s">>)}
    \cup (IF d \in {"i18next", "goi18n"}
          THEN {Multi(SubSeq(<<<<"p">>, <<"q">>, <<"r">>, <<"t">>, <<"v">>>>, 1, n)) : n \in 1..MaxForms}
          ELSE {})

\* the values assigned to a unit's notes
Notes == {<<>>, <<"n">>}

-----------------------------------------------------------------------------
(* The store *)

InitOf(ds) ==
    /\ dialect \in ds
    /\ filter \in Filters(dialect)
    /\ locale \in Locales(dialect)
    /\ pc = "new"
    /\ exc = "none"
    /\ file = None
    /\ units = <<>>
    /\ out = None
    /\ edits = 0

\* JsonFile.parse: the tree is kept, and every unit the extraction yields
\* before it ends or raises is added
Parse(input) ==
    /\ pc = "new"
    /\ LET r == ExtractUnits(dialect, input, filter, <<>>, NoName, NoName, None)
       IN  /\ units' = r.units
           /\ exc' = r.exc
           /\ pc' = IF r.exc = "none" THEN "parsed" ELSE "failed"
    /\ file' = input
    /\ UNCHANGED <<dialect, filter, locale, out, edits>>

\* unit.target = target, for the i-th unit of the store
AssignTarget(i, target) ==
    /\ pc = "parsed"
    /\ edits < MaxEdits
    /\ LET r == SetTarget(dialect, units[i], target)
       IN  /\ units' = [units EXCEPT ![i] = r.unit]
           /\ exc' = r.exc
    /\ edits' = edits + 1
    /\ UNCHANGED <<dialect, filter, locale, pc, file, out>>

\* unit.notes = notes, for the i-th unit of the store
AssignNotes(i, notes) ==
    /\ pc = "parsed"
    /\ edits < MaxEdits
    /\ units' = [units EXCEPT ![i].notes = notes]
    /\ exc' = "none"
    /\ edits' = edits + 1
    /\ UNCHANGED <<dialect, filter, locale, pc, file, out>>

\* store.serialize(out)
Serialize ==
    /\ pc = "parsed"
    /\ out' = SerializeUnits(dialect, units, locale)
    /\ units' = IF dialect = "goi18n" THEN units ELSE GetValueUnits(dialect, units, locale)
    /\ exc' = "none"
    /\ UNCHANGED <<dialect, filter, locale, pc, file, edits>>

Next ==
    \/ \E input \in Inputs(dialect) : Parse(input)
    \/ \E i \in 1..Len(units), target \in Targets(dialect) : AssignTarget(i, target)
    \/ \E i \in 1..Len(units), notes \in Notes : AssignNotes(i, notes)
    \/ Serialize

InitNested == InitOf({"json", "nested"})
InitI18Next == InitOf({"i18next"})
InitGoI18N == InitOf({"goi18n"})
InitARB == InitOf({"arb"})
Init == InitOf({"json", "nested", "webext", "i18next", "goi18n", "arb"})

SpecNested == InitNested /\ [][Next]_vars
SpecI18Next == InitI18Next /\ [][Next]_vars
SpecGoI18N == InitGoI18N /\ [][Next]_vars
SpecARB == InitARB /\ [][Next]_vars
Spec == Init /\ [][Next]_vars

-----------------------------------------------------------------------------
(* Properties *)

\* the store holds the units of its document as extraction left them
Extracted(d) == dialect = d /\ pc = "parsed" /\ edits = 0

\* the store was serialized with no unit edited
Rebuilt(d) == Extracted(d) /\ out # None

\* no key of the tree holds a path separator or a bracket
RECURSIVE PlainKeys(_)
PlainKeys(v) ==
    CASE IsDict(v) -> \A i \in 1..Len(v.kv) :
                          /\ ~Contains(v.kv[i][1], <<".">>)
                          /\ ~Contains(v.kv[i][1], <<"[">>)
                          /\ PlainKeys(v.kv[i][2])
      [] IsList(v) -> \A i \in 1..Len(v.xs) : PlainKeys(v.xs[i])
      [] OTHER -> TRUE

\* C1: nested dialect, no filter: the tree rebuilt from the units of an
\* unedited document equals the parsed tree, key order, array lengths and
\* array element order included.
C1_NestedRoundTrip ==
    (Rebuilt("nested") /\ filter = None /\ PlainKeys(file)) => out = file

\* the identifiers of the leaves the filter rule of C2 selects, in document
\* order: own is the name of the node in its container, field the key of
\* the object field the enclosing arrays sit under
RECURSIVE SelectedLeaves(_, _, _, _, _, _)
RECURSIVE SelectedInDict(_, _, _, _)
RECURSIVE SelectedInList(_, _, _, _, _)
SelectedInDict(data, stop, prev, i) ==
    IF i > Len(data.kv) THEN <<>>
    ELSE SelectedLeaves(data.kv[i][2], stop, prev \o <<".">> \o data.kv[i][1], KeyName(data.kv[i][1]), NoName, "obj")
         \o SelectedInDict(data, stop, prev, i + 1)
SelectedInList(data, stop, prev, field, i) ==
    IF i > Len(data.xs) THEN <<>>
    ELSE SelectedLeaves(data.xs[i], stop, prev \o <<"[">> \o IntToStr(i - 1) \o <<"]">>, IdxName(i - 1), field, "arr")
         \o SelectedInList(data, stop, prev, field, i + 1)
SelectedLeaves(data, stop, prev, own, field, container) ==
    CASE IsDict(data) -> SelectedInDict(data, stop, prev, 1)
      [] IsList(data) ->
            SelectedInList(data, stop, prev, IF container = "arr" THEN field ELSE own, 1)
      [] OTHER ->
            IF \/ stop = None
               \/ container = "obj" /\ own.n = "key" /\ own.key \in stop.keys
               \/ container = "arr" /\ field.n = "key" /\ field.key \in stop.keys
            THEN <<prev>> ELSE <<>>

\* C2: generic extraction under a filter: the units are exactly the leaves
\* whose own key (in an object) or whose enclosing field's key (in an array,
\* at any array nesting depth) is in the filter, all leaves without filter.
C2_FilterSelectsByFieldKey ==
    (dialect \in {"json", "nested"} /\ pc = "parsed")
        => [i \in 1..Len(units) |-> units[i].id]
               = SelectedLeaves(file, filter, <<>>, NoName, NoName, "none")

\* an object all of whose values are strings
AllStrings(o) == IsDict(o) /\ \A i \in 1..Len(o.kv) : o.kv[i][2].t = "str"

\* the objects of string leaves of the document, each with the identifier
\* prefix of its members: the root, or the objects the root holds
LeafObjects ==
    (IF AllStrings(file) THEN {<<file, <<>>>>} ELSE {})
    \cup {<<file.kv[i][2], <<".">> \o file.kv[i][1]>> :
             i \in {j \in 1..Len(file.kv) : AllStrings(file.kv[j][2])}}

\* the keys base_0 .. base_9 that the object holds, in ascending order
IndexedKeys(o, base) ==
    LET Held(key) == HasKey(o, key)
    IN  SelectSeq([n \in 1..10 |-> base \o <<"_">> \o IntToStr(n - 1)], Held)

\* C3: i18next extraction of an object that holds base_0: one unit, named
\* after base, holds the values of all the keys base_0 .. base_9 that are
\* present, in ascending order, and has exactly those keys as local keys; a
\* missing index is left out and does not end the group.
C3_PluralGroupHoldsPresentKeys ==
    Extracted("i18next") =>
        \A op \in LeafObjects : \A i \in 1..Len(op[1].kv) :
            LET o == op[1]
                k == o.kv[i][1]
                base == DropLast(k, 2)
                keys == IndexedKeys(o, base)
            IN  EndsWith(k, <<"_", "0">>) =>
                    \E j \in 1..Len(units) :
                        /\ units[j].id = op[2] \o <<".">> \o base
                        /\ units[j].item = KeyList([n \in 1..Len(keys) |-> KeyName(keys[n])])
                        /\ units[j].target = Multi([n \in 1..Len(keys) |-> DictGet(o, keys[n]).s])

\* the last segment of a unit identifier: the name extraction gave the unit
LastSegment(id) ==
    LET segments == Split(LStrip(id, "."), ".")
    IN  segments[Len(segments)]

\* the local keys C4 gives a unit of n forms
ClaimedLabels(n, base) ==
    IF n <= 2
    THEN SubSeq(<<KeyName(base), KeyName(base \o PluralSuffix)>>, 1, n)
    ELSE [i \in 1..n |-> KeyName(base \o <<"_">> \o IntToStr(i - 1))]

\* the object found under depth nested single keys of a fragment
RECURSIVE Innermost(_, _)
Innermost(fragment, depth) ==
    IF depth = 0 THEN fragment ELSE Innermost(fragment.kv[1][2], depth - 1)

\* what C4 says of the assignment of target to the i-th unit, a unit whose
\* local keys are key names
LabelsFollowAssignment(i, target) ==
    LET old == units[i]
        new == units'[i]
        base == LastSegment(old.id)
        n == Len(target.strings)
        changed == ~IsMulti(old.target) \/ Len(old.target.strings) # n
        depth == Len(Split(LStrip(old.id, "."), ".")) - 1
    IN  /\ new.target = target
        /\ IF IsMulti(target)
           THEN /\ new.item.n = "list"
                /\ Len(new.item.keys) = n
                /\ changed => new.item.keys = ClaimedLabels(n, base)
                /\ Innermost(I18NextGetValue(new), depth)
                      = Obj([j \in 1..n |-> <<new.item.keys[j].key, Str(target.strings[j])>>])
           ELSE new.item = KeyName(base)

\* the local key of the unit is a key name or a list of key names
KeyLabels(u) ==
    \/ u.item.n = "key"
    \/ u.item.n = "list" /\ \A j \in 1..Len(u.item.keys) : u.item.keys[j].n = "key"

\* C4: i18next unit: after every assignment a multi-string value of n forms
\* has n local keys, [base, base_plural] cut to n for n <= 2 and base_0 ..
\* base_(n-1) for n > 2 when the number of forms changed, the encoding maps
\* the i-th key to the i-th form, and a single string leaves the base key
\* name alone as the local key.
C4_LocalKeysFollowForms ==
    [][dialect = "i18next" =>
          \A i \in 1..Len(units) : \A target \in Targets(dialect) :
              (AssignTarget(i, target) /\ KeyLabels(units[i]))
                  => LabelsFollowAssignment(i, target)]_vars

\* C8: after extraction with the nested or the i18next dialect no two units
\* of the document have the same identifier.
C8_UnitIdsUnique ==
    (dialect \in {"nested", "i18next"} /\ pc # "new") =>
        \A i, j \in 1..Len(units) : i # j => units[i].id # units[j].id

\* the units that carry the value of key k of an object whose members have
\* the identifier prefix prev: a unit for the leaf itself, or a plural group
\* of the object with k among its local keys
Carriers(k, prev) ==
    {j \in 1..Len(units) :
        \/ units[j].item = KeyName(k) /\ units[j].id = prev \o <<".">> \o k
        \/ /\ units[j].item.n = "list"
           /\ KeyName(k) \in {units[j].item.keys[n] : n \in 1..Len(units[j].item.keys)}
           /\ StartsWith(units[j].id, prev \o <<".">>)
           /\ ~Contains(SubSeq(units[j].id, Len(prev) + 2, Len(units[j].id)), <<".">>)}

\* C9: i18next extraction of an object completes without raising, whatever
\* the order of the keys, and the value of every key is carried by exactly
\* one unit: a key of a plural group only by the single unit of its group.
C9_EveryKeyCarriedOnce ==
    (dialect = "i18next" /\ pc # "new" /\ edits = 0) =>
        /\ pc = "parsed"
        /\ \A op \in LeafObjects : \A i \in 1..Len(op[1].kv) :
               Cardinality(Carriers(op[1].kv[i][1], op[2])) = 1

\* the (key, value) entries of the object that are document metadata,
\* each key with or without its two leading characters
MetadataEntries(data, stripped) ==
    LET IsDocumentKey(e) == StartsWith(e[1], <<"@", "@">>)
        entries == SelectSeq(data.kv, IsDocumentKey)
    IN  [i \in 1..Len(entries) |->
            <<IF stripped THEN SubSeq(entries[i][1], 3, Len(entries[i][1])) ELSE entries[i][1],
              entries[i][2]>>]

\* what C5 says of the units of an ARB object: identifier, value, metadata
\* and note of each, the header first when the object has document metadata
ClaimedARBUnits(data, stripped) ==
    LET IsDataKey(e) == ~StartsWith(e[1], <<"@">>)
        entries == SelectSeq(data.kv, IsDataKey)
        MetadataOf(k) == DictGetOr(data, <<"@">> \o k, Obj(<<>>))
        header == [id |-> <<"@">>, target |-> None,
                   metadata |-> Obj(MetadataEntries(data, stripped)), notes |-> <<>>]
    IN  (IF MetadataEntries(data, stripped) # <<>> THEN <<header>> ELSE <<>>)
        \o [i \in 1..Len(entries) |->
               [id |-> entries[i][1], target |-> entries[i][2],
                metadata |-> MetadataOf(entries[i][1]),
                notes |-> DictGetOr(MetadataOf(entries[i][1]), DESCRIPTION, Str(<<>>)).s]]

\* identifier, value, metadata and note of every unit of the store
UnitViews ==
    [i \in 1..Len(units) |->
        [id |-> units[i].id, target |-> units[i].target,
         metadata |-> units[i].metadata, notes |-> units[i].notes]]

\* C5 as amended: ARB extraction yields a header unit "@" exactly when the
\* object has a key that starts with "@@", a unit with no value of its own
\* whose metadata holds the document metadata entries under their full keys,
\* the "@@" included; then one unit for every key K that does not start with
\* "@", in document order, with identifier K, the value at K, the metadata
\* object at "@K" (empty when there is none) and its description as note.
C5_ARBUnits == Extracted("arb") => UnitViews = ClaimedARBUnits(file, FALSE)

\* C5 as stated: the same, the header holding the document metadata entries
\* under their names without the "@@".
C5_ARBUnitsStripped == Extracted("arb") => UnitViews = ClaimedARBUnits(file, TRUE)

\* an extracted ARB document with a header unit and a described entry
C5_Witness ==
    /\ Extracted("arb")
    /\ Len(units) >= 2
    /\ units[1].id = <<"@">>
    /\ units[1].metadata.kv # <<>>
    /\ \E i \in 2..Len(units) : units[i].notes # <<>>

\* every "@K" key of the object belongs to a data key K of the object
NoStrayMetadata(data) ==
    \A i \in 1..Len(data.kv) :
        LET k == data.kv[i][1]
        IN  (StartsWith(k, <<"@">>) /\ ~StartsWith(k, <<"@", "@">>))
                => HasKey(data, SubSeq(k, 2, Len(k)))

\* C7: ARB: the object rebuilt from the units of an unedited document equals
\* the parsed object, same keys, same values, same key order, whether or not
\* an entry has an "@K" sibling and wherever the "@@" keys stand.
C7_ARBRoundTrip == (Rebuilt("arb") /\ NoStrayMetadata(file)) => out = file

\* C10: serialize changes no unit: identifier, value, note, local key,
\* placeholders and metadata of every unit are what they were before.
C10_SerializeKeepsUnits == [][Serialize => units' = units]_vars

\* the categories of a plural translation and the description of a record
\* are such that the go-i18n encoder writes them back: the categories are
\* those of the locale, a description that is present is not empty
LocaleShaped(data, loc) ==
    \A i \in 1..Len(data.xs) :
        LET r == data.xs[i]
            tr == DictGet(r, TRANSLATION)
            tags == plural_tags(loc)
        IN  /\ HasKey(r, DESCRIPTION) => DictGet(r, DESCRIPTION).s # <<>>
            /\ IsDict(tr) => {tr.kv[j][1] : j \in 1..Len(tr.kv)} = {tags[j] : j \in 1..Len(tags)}

\* the two records are equal but for the key order of a plural translation
SameRecord(a, b) ==
    /\ DictKeys(a) = DictKeys(b)
    /\ \A i \in 1..Len(a.kv) :
           LET ta == a.kv[i][2]
               tb == b.kv[i][2]
           IN  IF a.kv[i][1] = TRANSLATION /\ IsDict(ta) /\ IsDict(tb)
               THEN /\ {ta.kv[j][1] : j \in 1..Len(ta.kv)} = {tb.kv[j][1] : j \in 1..Len(tb.kv)}
                    /\ Len(ta.kv) = Len(tb.kv)
                    /\ \A j \in 1..Len(ta.kv) : DictGet(tb, ta.kv[j][1]) = ta.kv[j][2]
               ELSE ta = tb

\* the same records in the same order
SameRecords(a, b) ==
    /\ IsList(a)
    /\ Len(a.xs) = Len(b.xs)
    /\ \A i \in 1..Len(a.xs) : SameRecord(a.xs[i], b.xs[i])

\* C6 as amended: go-i18n with target locale L: an array of records whose
\* plural translations are keyed by exactly the categories of L's plural
\* tags, in any key order, and whose descriptions, when present, are not
\* empty, is written back with the same records in the same order, each
\* plural translation with the same categories mapped to the same strings.
C6_GoI18NRoundTrip ==
    (Rebuilt("goi18n") /\ LocaleShaped(file, locale)) => SameRecords(out, file)

\* C6 as stated: the same for plural translations keyed by any subset of
\* the CLDR categories and for any description.
C6_GoI18NRoundTripAnySubset == Rebuilt("goi18n") => SameRecords(out, file)

\* a rebuilt go-i18n document of two records, one with a plural translation
\* of the categories of the locale that are not in CLDR order in the file
C6_Witness ==
    /\ Rebuilt("goi18n")
    /\ LocaleShaped(file, locale)
    /\ Len(file.xs) = 2
    /\ \E i \in 1..2 :
           LET tr == DictGet(file.xs[i], TRANSLATION)
           IN  IsDict(tr) /\ DictKeys(tr) = <<OTHER_, ONE>>

=============================================================================
